---- MODULE Spec2Model ----
(***************************************************************************)
(* Pyre: the single-threaded mio event loop (LowLevelServer), its registry *)
(* of connection slots (HighLevelServer / Client), the per-connection      *)
(* protocol multiplexer with its two buffers (AutoProtocol / H1Protocol),  *)
(* the update queue with its waker (EventLoopHandle) and the application's *)
(* Sender / Receiver handles.  The peer sockets, the kernel and the poller *)
(* are the environment.                                                    *)
(***************************************************************************)
EXTENDS Integers, Sequences, FiniteSets, TLC

\* ---------------------------------------------------------------- bounds
\* Connections the peers open during a run.
MaxConns == 1
\* Entries the update queue holds (the SegQueue itself is unbounded).
MaxUpdates == 3
\* Bytes one peer sends on one connection.
MaxInbound == 1
\* Sender calls the application makes during a run.
MaxSends == 1
\* Bytes of the longest request fed to the parser in chunks.
MaxReqLen == 3
\* Free space of a socket's kernel send buffer when the peer has read all.
SendBuf == 1

\* The wider runs: one more connection (so that a slot is reused), one more
\* request byte and one more Sender call.
WideConns == MaxConns + 1
WideInbound == MaxInbound + 1
WideSends == MaxSends + 1

\* ------------------------------------------------------ program constants
SERVER == 0
CHECK_UPDATE == 1
TokenCounterSeed == 2
ChannelCap == 10

\* A body the application passes to a Sender call is one byte longer than
\* the kernel send buffer, so that one write cannot take it whole.  The
\* bytes of the k-th call are k*10+1, k*10+2, ...: every byte is distinct.
BodyLen == SendBuf + 1
Body(k) == [i \in 1..BodyLen |-> k * 10 + i]

\* Slot tokens the counter can issue within WideConns connections.
Tokens == (TokenCounterSeed + 1)..(TokenCounterSeed + WideConns)

\* Request bytes: "h" is a byte of a request's head, "E" the byte that
\* completes a request, "x" a byte that httparse rejects.
ReqBytes == {"h", "E", "x"}

VARIABLES
    clients,        \* HighLevelServer.clients: token -> Client flags
    counter,        \* TokenCounter.internal
    poller,         \* interest set the poller holds for a slot's socket
    updates,        \* UpdatesQueue (SegQueue<EventUpdate>)
    wake,           \* the Waker has a wakeup pending for CHECK_UPDATE
    reader_buffer,  \* AutoProtocol.reader_buffer per slot
    h1,             \* H1Protocol's parsing state per slot
    writer_buffer,  \* AutoProtocol.writer_buffer per slot
    chan,           \* SenderHandler's bounded channel per slot
    handles,        \* tokens for which the application holds a DataSender
    inbound,        \* bytes sent by the peer, not yet read, per slot
    nsent,          \* bytes the peer has sent on the slot's connection
    peer,           \* state of the slot's connection as the kernel sees it
    space,          \* free space in the kernel send buffer per slot
    shut,           \* the write half of the slot's socket has been shut
    wire,           \* bytes handed to the slot's current socket
    backlog,        \* connections waiting in the listener's accept queue
    conns,          \* connections opened so far
    io_pc,          \* where the I/O thread is
    io_tok,         \* the slot whose read_ready / write_ready is running
    events,         \* events of the current poll not yet dispatched (the
                    \* poller returns them in no particular order)
    iter,           \* parity of the iterations of the running handler loop
    app_pc,         \* where the application thread is inside a handle call
    app_tok,        \* the token of the Sender call in progress
    app_late,       \* that call began after sock_shutdown ran for its slot
    sends           \* Sender calls made so far

vars == <<clients, counter, poller, updates, wake, reader_buffer,
          writer_buffer, h1, chan, handles, inbound, nsent, peer, space, shut,
          wire, backlog, conns, io_pc, io_tok, events, iter, app_pc, app_tok,
          app_late, sends>>

ioVars == <<io_pc, io_tok, events, iter>>
appVars == <<app_pc, app_tok, app_late, sends>>
sockVars == <<inbound, nsent, peer, space, shut, wire>>
bufVars == <<reader_buffer, writer_buffer, h1>>

\* ------------------------------------------------------------ transport.rs
\* An update that names the token after the one it was made for.
Update_next_token(kind, tok) == [kind |-> kind, tok |-> tok + 1]

Update(kind, tok) == [kind |-> kind, tok |-> tok]

\* SegQueue::push.  The model's queue holds MaxUpdates entries; a push that
\* repeats the entry at the tail of a full queue merges with it (the
\* handlers in server.rs are no-ops on a slot already in the requested
\* state, so applying an update twice in a row equals applying it once).
CanPush(q, u) == IF Len(q) < MaxUpdates THEN TRUE ELSE q[Len(q)] = u
Push(q, u) == IF Len(q) < MaxUpdates THEN Append(q, u) ELSE q

RECURSIVE CanPushAll(_, _)
CanPushAll(q, us) ==
    IF us = <<>> THEN TRUE
    ELSE CanPush(q, Head(us)) /\ CanPushAll(Push(q, Head(us)), Tail(us))

RECURSIVE PushAll(_, _)
PushAll(q, us) ==
    IF us = <<>> THEN q ELSE PushAll(Push(q, Head(us)), Tail(us))

\* The update of a resume_reading call that asks for the pause instead.
resume_reading_update_pauses(t) == Update("PauseReading", t)

\* EventLoopHandle::pause_reading .. resume_writing: the update each pushes
\* (every push is followed by Waker::wake).
pause_reading_update(t) == Update("PauseReading", t)
pause_writing_update(t) == Update("PauseWriting", t)
resume_reading_update(t) == Update("ResumeReading", t)
resume_writing_update(t) == Update("ResumeWriting", t)

\* ------------------------------------------------------------- the poller
\* mio Registry over epoll: register adds a socket that is not registered,
\* reregister and deregister need one that is.  `fail` is a failure of the
\* system call itself.  The result is [ok, reg], reg the interest set after.
PollerResult(ok, reg) == [ok |-> ok, reg |-> reg]

register(reg, interest, fail) ==
    IF fail \/ reg # {} THEN PollerResult(FALSE, reg)
    ELSE PollerResult(TRUE, interest)

reregister(reg, interest, fail) ==
    IF fail \/ reg = {} THEN PollerResult(FALSE, reg)
    ELSE PollerResult(TRUE, interest)

deregister(reg, fail) ==
    IF fail \/ reg = {} THEN PollerResult(FALSE, reg)
    ELSE PollerResult(TRUE, {})

\* --------------------------------------------------------------- client.rs
\* Client::build_from: the flags of a freshly built slot.
build_from == [is_reading |-> FALSE, is_writing |-> FALSE, is_idle |-> FALSE]

\* handle_new that rebinds the stream and marks the slot in use, the
\* interest flags left as they were.
handle_new_keeps_interest(cl) ==
    [cl EXCEPT !.is_idle = FALSE]

\* Client::handle_new: the flags after the slot is rebound to a new stream.
handle_new(cl) ==
    [cl EXCEPT !.is_reading = FALSE, !.is_writing = FALSE, !.is_idle = FALSE]

\* ---------------------------------- server.rs: interest-set transitions
\* Each takes the slot's flags and the poller's interest set for its socket
\* and gives [ok, cl, reg]; the flag changes only after the poller call
\* succeeded.
Result(ok, cl, reg) == [ok |-> ok, cl |-> cl, reg |-> reg]

pause_reading(cl, reg, fail) ==
    IF cl.is_reading
    THEN LET r == IF cl.is_writing
                  THEN reregister(reg, {"W"}, fail)
                  ELSE deregister(reg, fail)
         IN  IF ~r.ok THEN Result(FALSE, cl, reg)
             ELSE Result(TRUE, [cl EXCEPT !.is_reading = FALSE], r.reg)
    ELSE Result(TRUE, cl, reg)

\* pause_writing with the deregister taken whatever is_reading says.
pause_writing_deregisters(cl, reg, fail) ==
    IF cl.is_writing
    THEN LET r == deregister(reg, fail)
         IN  IF ~r.ok THEN Result(FALSE, cl, reg)
             ELSE Result(TRUE, [cl EXCEPT !.is_writing = FALSE], r.reg)
    ELSE Result(TRUE, cl, reg)

pause_writing(cl, reg, fail) ==
    IF cl.is_writing
    THEN LET r == IF cl.is_reading
                  THEN reregister(reg, {"R"}, fail)
                  ELSE deregister(reg, fail)
         IN  IF ~r.ok THEN Result(FALSE, cl, reg)
             ELSE Result(TRUE, [cl EXCEPT !.is_writing = FALSE], r.reg)
    ELSE Result(TRUE, cl, reg)

\* resume_reading that registers the socket whatever is_writing says.
resume_reading_registers(cl, reg, fail) ==
    IF ~cl.is_reading
    THEN LET r == register(reg, {"R"}, fail)
         IN  IF ~r.ok THEN Result(FALSE, cl, reg)
             ELSE Result(TRUE, [cl EXCEPT !.is_reading = TRUE], r.reg)
    ELSE Result(TRUE, cl, reg)

\* resume_reading that sets is_reading before it makes the poller call.
resume_reading_flag_first(cl, reg, fail) ==
    IF ~cl.is_reading
    THEN LET r == IF cl.is_writing
                  THEN reregister(reg, {"R", "W"}, fail)
                  ELSE register(reg, {"R"}, fail)
         IN  IF ~r.ok THEN Result(FALSE, [cl EXCEPT !.is_reading = TRUE], reg)
             ELSE Result(TRUE, [cl EXCEPT !.is_reading = TRUE], r.reg)
    ELSE Result(TRUE, cl, reg)

resume_reading(cl, reg, fail) ==
    IF ~cl.is_reading
    THEN LET r == IF cl.is_writing
                  THEN reregister(reg, {"R", "W"}, fail)
                  ELSE register(reg, {"R"}, fail)
         IN  IF ~r.ok THEN Result(FALSE, cl, reg)
             ELSE Result(TRUE, [cl EXCEPT !.is_reading = TRUE], r.reg)
    ELSE Result(TRUE, cl, reg)

\* resume_writing that makes its poller call whatever is_writing says.
resume_writing_unguarded(cl, reg, fail) ==
    LET r == IF cl.is_reading
             THEN reregister(reg, {"R", "W"}, fail)
             ELSE register(reg, {"W"}, fail)
    IN  IF ~r.ok THEN Result(FALSE, cl, reg)
        ELSE Result(TRUE, [cl EXCEPT !.is_writing = TRUE], r.reg)

resume_writing(cl, reg, fail) ==
    IF ~cl.is_writing
    THEN LET r == IF cl.is_reading
                  THEN reregister(reg, {"R", "W"}, fail)
                  ELSE register(reg, {"W"}, fail)
         IN  IF ~r.ok THEN Result(FALSE, cl, reg)
             ELSE Result(TRUE, [cl EXCEPT !.is_writing = TRUE], r.reg)
    ELSE Result(TRUE, cl, reg)

\* LowLevelServer::handle_update
handle_update(u, cl, reg, fail) ==
    CASE u.kind = "PauseReading" -> pause_reading(cl, reg, fail)
      [] u.kind = "PauseWriting" -> pause_writing(cl, reg, fail)
      [] u.kind = "ResumeReading" -> resume_reading(cl, reg, fail)
      [] u.kind = "ResumeWriting" -> resume_writing(cl, reg, fail)

\* ------------------------------------------------------- protocols/h1.rs
\* httparse over the head of the read buffer: Error when a rejected byte
\* comes before the end of the first request, Complete with the length of
\* the first request when it is whole, Partial otherwise.
Status(kind, len) == [kind |-> kind, len |-> len]

RECURSIVE parse_from(_, _)
parse_from(buf, i) ==
    IF i > Len(buf) THEN Status("Partial", 0)
    ELSE IF buf[i] = "x" THEN Status("Error", 0)
    ELSE IF buf[i] = "E" THEN Status("Complete", i)
    ELSE parse_from(buf, i + 1)

parse(buf) == parse_from(buf, 1)

\* data_received that throws a partial request away instead of keeping it
\* for the next call.
data_received_drops_partial(buf) ==
    LET status == parse(buf)
    IN  IF status.kind = "Error"
        THEN [buf |-> buf, called |-> FALSE]
        ELSE IF status.kind = "Partial"
        THEN [buf |-> <<>>, called |-> FALSE]
        ELSE [buf |-> SubSeq(buf, status.len + 1, Len(buf)), called |-> TRUE]

\* data_received that throws the read buffer away on a parse error.
data_received_drops_error(buf) ==
    LET status == parse(buf)
    IN  IF status.kind = "Error"
        THEN [buf |-> <<>>, called |-> FALSE]
        ELSE IF status.kind = "Partial"
        THEN [buf |-> buf, called |-> FALSE]
        ELSE [buf |-> SubSeq(buf, status.len + 1, Len(buf)), called |-> TRUE]

\* H1Protocol::data_received: [buf, called]: the read buffer after the call
\* and whether the host callback was invoked (on_request_parse).  One parse
\* per call; a parse error or a partial request consumes nothing.
data_received(buf) ==
    LET status == parse(buf)
    IN  IF status.kind # "Complete"
        THEN [buf |-> buf, called |-> FALSE]
        ELSE [buf |-> SubSeq(buf, status.len + 1, Len(buf)), called |-> TRUE]

\* The parsing state of a new H1Protocol (H1Protocol::new).
H1Protocol_new == [expected_content_length |-> 0, chunked_encoding |-> FALSE]

\* Header bytes that check_header looks at: "c" is a Content-Length
\* header of value ContentLength, "t" a Transfer-Encoding header that
\* contains "chunked".  Like "h" they are bytes of a request's head.
ContentLength == 5
HeaderBytes == {"c", "t"}

\* H1Protocol::check_header
check_header(st, header) ==
    IF header = "c" THEN [st EXCEPT !.expected_content_length = ContentLength]
    ELSE IF header = "t" THEN [st EXCEPT !.chunked_encoding = TRUE]
    ELSE st

\* H1Protocol::on_request_parse: check_header over the headers of the
\* parsed request, in order, before the callback is invoked.
RECURSIVE on_request_parse(_, _)
on_request_parse(st, request) ==
    IF request = <<>> THEN st
    ELSE on_request_parse(check_header(st, Head(request)), Tail(request))

\* The bytes data_received split off the front of the read buffer.
Consumed(in, rest) == SubSeq(in, 1, Len(in) - Len(rest))

\* H1Protocol::lost_connection: returns Ok and touches nothing.
h1_lost_connection(st) == st

\* The bytes of a sequence of payloads, in order.
RECURSIVE Flatten(_)
Flatten(ps) == IF ps = <<>> THEN <<>> ELSE Head(ps) \o Flatten(Tail(ps))

\* fill_write_buffer that puts what it drained in front of the bytes the
\* write buffer still holds.
fill_write_buffer_in_front(buf, ch) == Flatten(ch) \o buf

\* H1Protocol::fill_write_buffer: the write buffer after the Sender channel
\* has been drained into it (the channel is left empty and one
\* PauseWriting is posted, whatever was drained).
fill_write_buffer(buf, ch) == buf \o Flatten(ch)

\* AutoProtocol::write_buffer_drained: does it post PauseWriting?
write_buffer_drained(amount, buf) == amount = 0 \/ Len(buf) = 0

\* ------------------------------------------------------------ socket_io.rs
\* BufferIO::read_buf on the slot's socket: [res, n], the result of the
\* read system call and the bytes it gave.  A reset or failed connection is
\* an error; queued bytes come in one chunk; at end of stream the call
\* returns Ok(0).
read_buf(t) ==
    CASE peer[t] = "reset" -> [res |-> "ConnectionReset", n |-> 0]
      [] peer[t] = "error" -> [res |-> "Other", n |-> 0]
      [] inbound[t] # <<>> -> [res |-> "Ok", n |-> Len(inbound[t])]
      [] peer[t] = "fin" -> [res |-> "Ok", n |-> 0]
      [] OTHER -> [res |-> "WouldBlock", n |-> 0]

\* BufferIO::write_buf of buffer `buf` on the slot's socket: [res, n], the
\* result of the send system call and the bytes it took.  An empty buffer
\* is a send of length 0, which returns Ok(0) on a healthy socket; a send
\* on a socket whose write half is shut fails with BrokenPipe ("Other").
IoResult(res, n) == [res |-> res, n |-> n]

write_buf(t, buf) ==
    CASE peer[t] = "reset" -> IoResult("ConnectionReset", 0)
      [] peer[t] = "error" \/ shut[t] -> IoResult("Other", 0)
      [] Len(buf) = 0 -> IoResult("Ok", 0)
      [] space[t] = 0 -> IoResult("WouldBlock", 0)
      [] OTHER -> IoResult("Ok", IF Len(buf) < space[t] THEN Len(buf) ELSE space[t])

\* ----------------------------------------------------------- the kernel
\* The branch of on_socket_state_change an event of slot t takes, from the
\* readiness the poller reports for the registered interest: readable
\* first, then writable, then read/write closed.
Readable(t) == "R" \in poller[t] /\ (inbound[t] # <<>> \/ peer[t] # "open")
Writable(t) ==
    "W" \in poller[t] /\ space[t] > 0 /\ peer[t] \in {"open", "fin"} /\ ~shut[t]
Closed(t) ==
    poller[t] # {} /\ (peer[t] \in {"reset", "error"} \/ (peer[t] = "fin" /\ shut[t]))

\* Error and hang-up conditions are reported whatever the interest, and the
\* readable / writable flags may or may not come with them: when the
\* connection is closed the event is either one with those flags (which
\* takes the Read or Write branch) or one with the closed flags alone.
SocketPollStates(t) ==
    (IF Readable(t) THEN {"Read"} ELSE IF Writable(t) THEN {"Write"} ELSE {})
    \cup (IF Closed(t) THEN {"Shutdown"} ELSE {})

Event(tok, state) == [tok |-> tok, state |-> state]

\* The events one poll call can return: one for every source that is ready.
ReadyEvents ==
    (IF backlog > 0 THEN {Event(SERVER, "none")} ELSE {})
    \cup (IF wake THEN {Event(CHECK_UPDATE, "none")} ELSE {})
    \cup UNION {{Event(t, st) : st \in SocketPollStates(t)} : t \in DOMAIN clients}

Running == io_pc \notin {"stopped", "panicked"}

\* AutoProtocol::lost_connection: both buffers are cleared.
lost_connection(buf) == <<>>

\* Client::sock_shutdown: the slot's flags after it (the protocol is told
\* lost_connection and the write half of the stream is shut as well).
sock_shutdown(cl) == [cl EXCEPT !.is_idle = TRUE]

\* select_token that takes a token from the counter whatever slots are
\* idle.
select_token_fresh == {counter + 1}

\* select_token whose new token is the one below the counter's value.
select_token_below ==
    LET idle == {t \in DOMAIN clients : clients[t].is_idle}
    IN  IF idle # {} THEN idle ELSE {counter - 1}

\* select_token that takes any slot of the registry, idle or not.
select_token_any ==
    IF DOMAIN clients # {} THEN DOMAIN clients ELSE {counter + 1}

\* HighLevelServer::get_idle_client / select_token: the tokens select_token
\* can return (the hash map's iteration order decides among idle slots).
select_token ==
    LET idle == {t \in DOMAIN clients : clients[t].is_idle}
    IN  IF idle # {} THEN idle ELSE {counter + 1}

\* ---------------------------------------------------------------- Init
Init ==
    /\ clients = [t \in {} |-> build_from]
    /\ counter = TokenCounterSeed
    /\ poller = [t \in Tokens |-> {}]
    /\ updates = <<>>
    /\ wake = FALSE
    /\ reader_buffer = [t \in Tokens |-> <<>>]
    /\ h1 = [t \in Tokens |-> H1Protocol_new]
    /\ writer_buffer = [t \in Tokens |-> <<>>]
    /\ chan = [t \in Tokens |-> <<>>]
    /\ handles = {}
    /\ inbound = [t \in Tokens |-> <<>>]
    /\ nsent = [t \in Tokens |-> 0]
    /\ peer = [t \in Tokens |-> "none"]
    /\ space = [t \in Tokens |-> 0]
    /\ shut = [t \in Tokens |-> FALSE]
    /\ wire = [t \in Tokens |-> <<>>]
    /\ backlog = 0
    /\ conns = 0
    /\ io_pc = "poll"
    /\ io_tok = SERVER
    /\ events = {}
    /\ iter = 0
    /\ app_pc = "idle"
    /\ app_tok = SERVER
    /\ app_late = FALSE
    /\ sends = 0

\* ------------------------------------------------- the I/O thread (server.rs)
\* Where the I/O thread goes when a handler returns Ok: the next event of
\* the batch (process_events), or the next poll call (start).
Return == IF events = {} THEN "poll" ELSE "dispatch"

\* LowLevelServer::start: one poll call that returns events.
Poll ==
    /\ io_pc = "poll"
    /\ ReadyEvents # {}
    /\ \E evs \in SUBSET ReadyEvents :
       /\ \A e \in ReadyEvents : \E f \in evs : f.tok = e.tok
       /\ \A e \in evs, f \in evs : e.tok = f.tok => e = f
       /\ events' = evs
    /\ io_pc' = "dispatch"
    /\ wake' = FALSE
    /\ UNCHANGED <<clients, counter, poller, updates, bufVars, chan, handles,
                   sockVars, backlog, conns, io_tok, iter, appVars>>

\* LowLevelServer::process_events: the next event goes to its handler.
Dispatch ==
    /\ io_pc = "dispatch"
    /\ \E e \in events :
           /\ events' = events \ {e}
           /\ iter' = 0
           /\ IF e.tok = SERVER THEN io_pc' = "accept" /\ io_tok' = io_tok
              ELSE IF e.tok = CHECK_UPDATE THEN io_pc' = "updates" /\ io_tok' = io_tok
              ELSE IF e.tok \notin DOMAIN clients THEN io_pc' = "panicked" /\ io_tok' = io_tok
              ELSE IF e.state = "Read" THEN io_pc' = "read" /\ io_tok' = e.tok
              ELSE IF e.state = "Write" THEN io_pc' = "write" /\ io_tok' = e.tok
              ELSE io_pc' = "shutdown" /\ io_tok' = e.tok
    /\ UNCHANGED <<clients, counter, poller, updates, wake, bufVars, chan,
                   handles, sockVars, backlog, conns, appVars>>

\* LowLevelServer::on_client_incoming, one turn of its accept loop, with
\* HighLevelServer::client_accepted for the accepted stream.
Accept ==
    /\ io_pc = "accept"
    /\ IF backlog = 0
       THEN /\ io_pc' = Return
            /\ UNCHANGED <<clients, counter, poller, updates, wake, inbound,
                           nsent, peer, space, shut, wire, backlog>>
       ELSE \E tok \in select_token :
            /\ CanPush(updates, resume_reading_update(tok))
            /\ counter' = IF tok \in DOMAIN clients THEN counter ELSE counter + 1
            /\ clients' = [t \in DOMAIN clients \cup {tok} |->
                             IF t # tok THEN clients[t]
                             ELSE IF tok \in DOMAIN clients
                                  THEN handle_new(clients[tok])
                                  ELSE build_from]
            /\ poller' = [poller EXCEPT ![tok] = {}]
            /\ inbound' = [inbound EXCEPT ![tok] = <<>>]
            /\ nsent' = [nsent EXCEPT ![tok] = 0]
            /\ peer' = [peer EXCEPT ![tok] = "open"]
            /\ space' = [space EXCEPT ![tok] = SendBuf]
            /\ shut' = [shut EXCEPT ![tok] = FALSE]
            /\ wire' = [wire EXCEPT ![tok] = <<>>]
            /\ updates' = Push(updates, resume_reading_update(tok))
            /\ wake' = TRUE
            /\ backlog' = backlog - 1
            /\ io_pc' = io_pc
    /\ UNCHANGED <<bufVars, chan, handles, conns, io_tok, events, iter, appVars>>

\* on_update_wakeup that applies one update for each wakeup.
ApplyUpdateOnce ==
    /\ io_pc = "updates"
    /\ IF updates = <<>>
       THEN /\ io_pc' = Return
            /\ UNCHANGED <<clients, poller, updates>>
       ELSE LET u == Head(updates)
            IN  /\ updates' = Tail(updates)
                /\ IF u.tok \notin DOMAIN clients
                   THEN io_pc' = "panicked" /\ UNCHANGED <<clients, poller>>
                   ELSE \E fail \in BOOLEAN :
                        LET r == handle_update(u, clients[u.tok], poller[u.tok], fail)
                        IN  /\ clients' = [clients EXCEPT ![u.tok] = r.cl]
                            /\ poller' = [poller EXCEPT ![u.tok] = r.reg]
                            /\ io_pc' = IF r.ok THEN Return ELSE "stopped"
    /\ UNCHANGED <<counter, wake, bufVars, chan, handles, sockVars, backlog,
                   conns, io_tok, events, iter, appVars>>

\* LowLevelServer::on_update_wakeup, one turn of its loop: pop an update
\* and apply it; an error of the poller call leaves the event loop.
ApplyUpdate ==
    /\ io_pc = "updates"
    /\ IF updates = <<>>
       THEN /\ io_pc' = Return
            /\ UNCHANGED <<clients, poller, updates>>
       ELSE LET u == Head(updates)
            IN  /\ updates' = Tail(updates)
                /\ IF u.tok \notin DOMAIN clients
                   THEN io_pc' = "panicked" /\ UNCHANGED <<clients, poller>>
                   ELSE \E fail \in BOOLEAN :
                        LET r == handle_update(u, clients[u.tok], poller[u.tok], fail)
                        IN  /\ clients' = [clients EXCEPT ![u.tok] = r.cl]
                            /\ poller' = [poller EXCEPT ![u.tok] = r.reg]
                            /\ io_pc' = IF r.ok THEN io_pc ELSE "stopped"
    /\ UNCHANGED <<counter, wake, bufVars, chan, handles, sockVars, backlog,
                   conns, io_tok, events, iter, appVars>>

\* LowLevelServer::on_socket_state_change, the half-closed branch:
\* sock_shutdown, then pause_writing, then pause_reading.
Shutdown ==
    /\ io_pc = "shutdown"
    /\ LET t == io_tok
       IN  \E f1 \in BOOLEAN, f2 \in BOOLEAN :
           LET c0 == sock_shutdown(clients[t])
               w  == pause_writing(c0, poller[t], f1)
               r  == IF w.ok THEN pause_reading(w.cl, w.reg, f2) ELSE w
           IN  /\ reader_buffer' = [reader_buffer EXCEPT ![t] = lost_connection(@)]
               /\ h1' = [h1 EXCEPT ![t] = h1_lost_connection(@)]
               /\ writer_buffer' = [writer_buffer EXCEPT ![t] = lost_connection(@)]
               /\ shut' = [shut EXCEPT ![t] = TRUE]
               /\ clients' = [clients EXCEPT ![t] = r.cl]
               /\ poller' = [poller EXCEPT ![t] = r.reg]
               /\ io_pc' = IF r.ok THEN Return ELSE "stopped"
    /\ UNCHANGED <<counter, updates, wake, chan, handles, inbound, nsent, peer,
                   space, wire, backlog, conns, io_tok, events, iter, appVars>>

\* ------------------------------------------------ Client::read_ready
\* One turn of read_ready's loop on slot io_tok: read_buffer_acquire,
\* read_buf, read_buffer_filled.
ReadReady ==
    /\ io_pc = "read"
    /\ LET t == io_tok
           r == read_buf(t)
       IN  CASE r.res = "WouldBlock" ->
                  /\ io_pc' = Return
                  /\ iter' = 0
                  /\ UNCHANGED <<clients, bufVars, handles, inbound, shut>>
             [] r.res = "ConnectionReset" ->
                  /\ clients' = [clients EXCEPT ![t] = sock_shutdown(@)]
                  /\ reader_buffer' = [reader_buffer EXCEPT ![t] = lost_connection(@)]
                  /\ h1' = [h1 EXCEPT ![t] = h1_lost_connection(@)]
                  /\ writer_buffer' = [writer_buffer EXCEPT ![t] = lost_connection(@)]
                  /\ shut' = [shut EXCEPT ![t] = TRUE]
                  /\ io_pc' = Return
                  /\ iter' = 0
                  /\ UNCHANGED <<handles, inbound>>
             [] r.res = "Other" ->
                  /\ io_pc' = "stopped"
                  /\ iter' = 0
                  /\ UNCHANGED <<clients, bufVars, handles, inbound, shut>>
             [] r.res = "Ok" ->
                  LET in == reader_buffer[t] \o inbound[t]
                      d == data_received(in)
                  IN  /\ reader_buffer' = [reader_buffer EXCEPT ![t] = d.buf]
                      /\ h1' = [h1 EXCEPT ![t] =
                                  IF d.called THEN on_request_parse(@, Consumed(in, d.buf))
                                  ELSE @]
                      /\ inbound' = [inbound EXCEPT ![t] = <<>>]
                      /\ handles' = IF d.called THEN handles \cup {t} ELSE handles
                      /\ iter' = 1 - iter
                      /\ io_pc' = io_pc
                      /\ UNCHANGED <<clients, writer_buffer, shut>>
    /\ UNCHANGED <<counter, poller, updates, wake, chan, nsent, peer, space,
                   wire, backlog, conns, io_tok, events, appVars>>

\* ------------------------------------------------ Client::write_ready
\* One turn of write_ready's loop on slot io_tok: write_buffer_acquire
\* (fill_write_buffer drains the channel and posts PauseWriting), write_buf,
\* write_buffer_drained.
WriteReady ==
    /\ io_pc = "write"
    /\ LET t == io_tok
           filled == fill_write_buffer(writer_buffer[t], chan[t])
           w == write_buf(t, filled)
           rest == SubSeq(filled, w.n + 1, Len(filled))
           posted == IF w.res = "Ok" /\ write_buffer_drained(w.n, rest)
                     THEN <<pause_writing_update(t), pause_writing_update(t)>>
                     ELSE <<pause_writing_update(t)>>
       IN  /\ CanPushAll(updates, posted)
           /\ updates' = PushAll(updates, posted)
           /\ wake' = TRUE
           /\ chan' = [chan EXCEPT ![t] = <<>>]
           /\ CASE w.res = "WouldBlock" ->
                     /\ writer_buffer' = [writer_buffer EXCEPT ![t] = filled]
                     /\ io_pc' = Return
                     /\ iter' = 0
                     /\ UNCHANGED <<clients, reader_buffer, h1, shut, wire, space>>
                [] w.res = "ConnectionReset" ->
                     /\ clients' = [clients EXCEPT ![t] = sock_shutdown(@)]
                     /\ reader_buffer' = [reader_buffer EXCEPT ![t] = lost_connection(@)]
                     /\ h1' = [h1 EXCEPT ![t] = h1_lost_connection(@)]
                     /\ writer_buffer' = [writer_buffer EXCEPT ![t] = lost_connection(filled)]
                     /\ shut' = [shut EXCEPT ![t] = TRUE]
                     /\ io_pc' = Return
                     /\ iter' = 0
                     /\ UNCHANGED <<wire, space>>
                [] w.res = "Other" ->
                     /\ writer_buffer' = [writer_buffer EXCEPT ![t] = filled]
                     /\ io_pc' = "stopped"
                     /\ iter' = 0
                     /\ UNCHANGED <<clients, reader_buffer, h1, shut, wire, space>>
                [] w.res = "Ok" ->
                     /\ writer_buffer' = [writer_buffer EXCEPT ![t] = rest]
                     /\ wire' = [wire EXCEPT ![t] = @ \o SubSeq(filled, 1, w.n)]
                     /\ space' = [space EXCEPT ![t] = @ - w.n]
                     /\ iter' = 1 - iter
                     /\ io_pc' = io_pc
                     /\ UNCHANGED <<clients, reader_buffer, h1, shut>>
    /\ UNCHANGED <<counter, poller, handles, inbound, nsent, peer, backlog,
                   conns, io_tok, events, appVars>>

\* ------------------------------------------- the application (sender.rs)
\* DataSender::__call__, first step: EventLoopHandle::resume_writing pushes
\* its update (the wake is the thread's next step).
SenderResume(maxSends) ==
    /\ Running
    /\ app_pc = "idle"
    /\ sends < maxSends
    /\ \E t \in handles :
       /\ CanPush(updates, resume_writing_update(t))
       /\ updates' = Push(updates, resume_writing_update(t))
       /\ app_tok' = t
       /\ app_late' = (clients[t].is_idle /\ shut[t])
    /\ app_pc' = "wake"
    /\ sends' = sends + 1
    /\ UNCHANGED <<clients, counter, poller, wake, bufVars, chan, handles,
                   sockVars, backlog, conns, ioVars>>

\* DataSender::__call__, second step: Waker::wake at the end of
\* EventLoopHandle::resume_writing.
SenderWake ==
    /\ Running
    /\ app_pc = "wake"
    /\ wake' = TRUE
    /\ app_pc' = "send"
    /\ UNCHANGED <<clients, counter, poller, updates, bufVars, chan, handles,
                   sockVars, backlog, conns, ioVars, app_tok, app_late, sends>>

\* DataSender::__call__, last step: crossbeam's Sender::send on the
\* bounded channel, which enqueues when there is room and otherwise parks
\* the caller until there is; it fails only once the receiver is dropped,
\* and SenderHandler keeps the receiver for the life of the slot.
SenderSend ==
    /\ Running
    /\ app_pc = "send"
    /\ IF Len(chan[app_tok]) < ChannelCap
       THEN /\ chan' = [chan EXCEPT ![app_tok] = Append(@, Body(sends))]
            /\ app_pc' = "idle"
            /\ app_late' = FALSE
       ELSE /\ app_pc' = "blocked"
            /\ chan' = chan
            /\ app_late' = app_late
    /\ UNCHANGED <<clients, counter, poller, updates, wake, bufVars, handles,
                   sockVars, backlog, conns, ioVars, app_tok, sends>>

\* The parked send completes once the channel has room.
SenderUnblock ==
    /\ Running
    /\ app_pc = "blocked"
    /\ Len(chan[app_tok]) < ChannelCap
    /\ chan' = [chan EXCEPT ![app_tok] = Append(@, Body(sends))]
    /\ app_pc' = "idle"
    /\ app_late' = FALSE
    /\ UNCHANGED <<clients, counter, poller, updates, wake, bufVars, handles,
                   sockVars, backlog, conns, ioVars, app_tok, sends>>

\* DataReceiver::__call__ (receiver.rs), first step:
\* EventLoopHandle::resume_reading pushes its update.
ReceiverCall ==
    /\ Running
    /\ app_pc = "idle"
    /\ \E t \in handles :
       /\ CanPush(updates, resume_reading_update(t))
       /\ updates' = Push(updates, resume_reading_update(t))
    /\ app_pc' = "rwake"
    /\ UNCHANGED <<clients, counter, poller, wake, bufVars, chan, handles,
                   sockVars, backlog, conns, ioVars, app_tok, app_late, sends>>

\* DataReceiver::__call__, second step: Waker::wake; the call returns.
ReceiverWake ==
    /\ Running
    /\ app_pc = "rwake"
    /\ wake' = TRUE
    /\ app_pc' = "idle"
    /\ UNCHANGED <<clients, counter, poller, updates, bufVars, chan, handles,
                   sockVars, backlog, conns, ioVars, app_tok, app_late, sends>>

\* ------------------------------------------------------------ the peers
\* A peer connects.  Peers come one after another: the next one connects
\* once the server has shut the previous connection down.
NoLiveConnection == backlog = 0 /\ \A t \in DOMAIN clients : clients[t].is_idle

PeerConnect(maxConns) ==
    /\ Running
    /\ conns < maxConns
    /\ NoLiveConnection
    /\ conns' = conns + 1
    /\ backlog' = backlog + 1
    /\ UNCHANGED <<clients, counter, poller, updates, wake, bufVars, chan,
                   handles, sockVars, ioVars, appVars>>

\* A peer connects while earlier connections may still be live: the
\* listener's accept queue holds it until on_client_incoming accepts it.
PeerConnectLive(maxConns) ==
    /\ Running
    /\ conns < maxConns
    /\ conns' = conns + 1
    /\ backlog' = backlog + 1
    /\ UNCHANGED <<clients, counter, poller, updates, wake, bufVars, chan,
                   handles, sockVars, ioVars, appVars>>

PeerSend(maxInbound) ==
    /\ Running
    /\ \E t \in DOMAIN clients, b \in ReqBytes :
       /\ peer[t] = "open"
       /\ nsent[t] < maxInbound
       /\ inbound' = [inbound EXCEPT ![t] = Append(@, b)]
       /\ nsent' = [nsent EXCEPT ![t] = @ + 1]
    /\ UNCHANGED <<clients, counter, poller, updates, wake, bufVars, chan,
                   handles, peer, space, shut, wire, backlog, conns, ioVars,
                   appVars>>

\* The peer sends a byte of a request whose headers matter to the parsing
\* state: a Content-Length header, a Transfer-Encoding header or the end
\* of the request.
PeerSendHeader(maxInbound) ==
    /\ Running
    /\ \E t \in DOMAIN clients, b \in HeaderBytes \cup {"E"} :
       /\ peer[t] = "open"
       /\ nsent[t] < maxInbound
       /\ inbound' = [inbound EXCEPT ![t] = Append(@, b)]
       /\ nsent' = [nsent EXCEPT ![t] = @ + 1]
    /\ UNCHANGED <<clients, counter, poller, updates, wake, bufVars, chan,
                   handles, peer, space, shut, wire, backlog, conns, ioVars,
                   appVars>>

\* The peer closes its sending half (FIN), resets the connection (RST), or
\* the connection fails with another error (a timeout, an unreachable host).
PeerClose ==
    /\ Running
    /\ \E t \in DOMAIN clients, how \in {"fin", "reset", "error"} :
       /\ peer[t] = "open"
       /\ peer' = [peer EXCEPT ![t] = how]
    /\ UNCHANGED <<clients, counter, poller, updates, wake, bufVars, chan,
                   handles, inbound, nsent, space, shut, wire, backlog, conns,
                   ioVars, appVars>>

\* The peer reads what was written: the kernel send buffer is free again.
PeerDrain ==
    /\ Running
    /\ \E t \in DOMAIN clients :
       /\ peer[t] \in {"open", "fin"}
       /\ space[t] < SendBuf
       /\ space' = [space EXCEPT ![t] = SendBuf]
    /\ UNCHANGED <<clients, counter, poller, updates, wake, bufVars, chan,
                   handles, inbound, nsent, peer, shut, wire, backlog, conns,
                   ioVars, appVars>>

\* ------------------------------------------------------------------ Next
IOThread ==
    \/ Poll
    \/ Dispatch
    \/ Accept
    \/ ApplyUpdate
    \/ Shutdown
    \/ ReadReady
    \/ WriteReady

NextB(maxConns, maxInbound, maxSends) ==
    \/ IOThread
    \/ SenderResume(maxSends)
    \/ SenderWake
    \/ SenderSend
    \/ ReceiverCall
    \/ ReceiverWake
    \/ PeerConnect(maxConns)
    \/ PeerSend(maxInbound)
    \/ PeerClose
    \/ PeerDrain

Next == NextB(MaxConns, MaxInbound, MaxSends)

Spec == Init /\ [][Next]_vars

\* The same system within the wider bounds.
WideNext == NextB(WideConns, WideInbound, WideSends)

WideSpec == Init /\ [][WideNext]_vars

\* Two connections, one after the other, within the bounds of Spec: the
\* second is accepted on the slot the first one left idle.
ReuseNext == NextB(WideConns, MaxInbound, MaxSends)

ReuseSpec == Init /\ [][ReuseNext]_vars

\* One response: the application makes its Sender call and no Receiver
\* call, and the I/O thread, a running thread, takes its next step.
OneResponseNext ==
    \/ IOThread
    \/ SenderResume(MaxSends)
    \/ SenderWake
    \/ SenderSend
    \/ PeerConnect(MaxConns)
    \/ PeerSend(MaxInbound)
    \/ PeerClose
    \/ PeerDrain

FairSpec == Init /\ [][OneResponseNext]_vars /\ WF_vars(IOThread)

\* One connection that stays open, whose application makes one Sender call
\* more than the channel holds; a parked send resumes once the channel has
\* room.
SenderNext ==
    \/ Poll
    \/ Dispatch
    \/ Accept
    \/ ApplyUpdate
    \/ ReadReady
    \/ WriteReady
    \/ SenderResume(ChannelCap + 1)
    \/ SenderWake
    \/ SenderSend
    \/ SenderUnblock
    \/ PeerConnect(MaxConns)
    \/ PeerSend(MaxInbound)
    \/ PeerDrain

SenderSpec == Init /\ [][SenderNext]_vars

\* One response to a peer that may pipeline: as OneResponseNext, with the
\* peer free to send a second byte before the I/O thread reads the first.
PipelineNext ==
    \/ IOThread
    \/ SenderResume(MaxSends)
    \/ SenderWake
    \/ SenderSend
    \/ PeerConnect(MaxConns)
    \/ PeerSend(WideInbound)
    \/ PeerClose
    \/ PeerDrain

PipelineSpec == Init /\ [][PipelineNext]_vars /\ WF_vars(IOThread)

\* Peers that connect at any time, so that connections are live side by
\* side, with one Sender call of the application.
ConcurrentNext ==
    \/ IOThread
    \/ SenderResume(MaxSends)
    \/ SenderWake
    \/ SenderSend
    \/ PeerConnectLive(WideConns)
    \/ PeerSend(MaxInbound)
    \/ PeerClose
    \/ PeerDrain

ConcurrentSpec == Init /\ [][ConcurrentNext]_vars

\* ------------------------------------------------ the keep-alive timeout
\* What Poll::poll returns when keep_alive_timeout elapses with no event
\* ready: the wait returns zero events, which is Ok(()) with the event
\* list left empty.
poll_timeout_status == "Ok"

\* LowLevelServer::start: a poll call that ends because the timeout
\* elapsed; nothing was ready.
PollTimeout ==
    /\ io_pc = "poll"
    /\ ReadyEvents = {}
    /\ events' = {}
    /\ io_pc' = "timeout"
    /\ UNCHANGED <<clients, counter, poller, updates, wake, bufVars, chan,
                   handles, sockVars, backlog, conns, io_tok, iter, appVars>>

\* LowLevelServer::start, the test of poll's status after a timeout:
\* keep_alive_tick (check_keep_alive on every slot, which does nothing)
\* runs when the status is Err(WouldBlock); any other error is logged.
AfterTimeout ==
    /\ io_pc = "timeout"
    /\ io_pc' = IF poll_timeout_status = "WouldBlock" THEN "ticked" ELSE "process"
    /\ UNCHANGED <<clients, counter, poller, updates, wake, bufVars, chan,
                   handles, sockVars, backlog, conns, io_tok, events, iter,
                   appVars>>

\* LowLevelServer::process_events over an empty event list, and back to
\* the poll call.
ProcessNoEvents ==
    /\ io_pc \in {"ticked", "process"}
    /\ io_pc' = "poll"
    /\ UNCHANGED <<clients, counter, poller, updates, wake, bufVars, chan,
                   handles, sockVars, backlog, conns, io_tok, events, iter,
                   appVars>>

KeepAliveNext ==
    \/ Next
    \/ PollTimeout
    \/ AfterTimeout
    \/ ProcessNoEvents

KeepAliveSpec == Init /\ [][KeepAliveNext]_vars

\* One connection on which the peer sends requests with and without the
\* headers the parsing state keeps: a request with a header and its end,
\* then a second request.
HeaderInbound == WideInbound + 1

HeaderNext ==
    \/ IOThread
    \/ SenderResume(MaxSends)
    \/ SenderWake
    \/ SenderSend
    \/ PeerConnect(MaxConns)
    \/ PeerSendHeader(HeaderInbound)
    \/ PeerClose
    \/ PeerDrain

HeaderSpec == Init /\ [][HeaderNext]_vars

\* ================================================================ claims

\* The interest set the flags of a slot stand for.
Interest(cl) ==
    (IF cl.is_reading THEN {"R"} ELSE {}) \cup (IF cl.is_writing THEN {"W"} ELSE {})

\* C1: in every reachable state and for every slot, (is_reading, is_writing)
\* is the interest set the poller holds for the slot's current socket.
C1_FlagsMirrorPoller ==
    \A t \in DOMAIN clients : poller[t] = Interest(clients[t])

\* C1 witness: a slot that sock_shutdown released and handle_new bound to a
\* second connection, registered again for both directions by
\* resume_reading and resume_writing.
C1_Witness ==
    \E t \in DOMAIN clients :
        /\ conns = 2
        /\ counter = TokenCounterSeed + 1
        /\ clients[t].is_reading /\ clients[t].is_writing
        /\ poller[t] = {"R", "W"}
        /\ peer[t] = "open"

\* C2: a slot that is idle is registered for neither direction.
C2_IdleImpliesNoInterest ==
    \A t \in DOMAIN clients :
        clients[t].is_idle => ~clients[t].is_reading /\ ~clients[t].is_writing

\* The update queue holds an update of the given kind for slot t.
Pending(kind, t) ==
    \E i \in 1..Len(updates) : updates[i] = Update(kind, t)

\* C3: no wakeup is lost on the response path: while the event loop runs,
\* a live slot whose Sender channel holds a payload is registered for
\* WRITABLE or has a ResumeWriting waiting in the update queue.
C3_NoLostWakeup ==
    \A t \in DOMAIN clients :
        (Running /\ ~clients[t].is_idle /\ peer[t] = "open" /\ chan[t] # <<>>)
            => ("W" \in poller[t] \/ Pending("ResumeWriting", t))

\* C4: every write_ready call returns: a turn of its loop that finds the
\* write buffer and the Sender channel both empty ends the call.
C4_WriteReadyReturns ==
    [][(/\ io_pc = "write"
        /\ writer_buffer[io_tok] = <<>>
        /\ chan[io_tok] = <<>>
        /\ ioVars' # ioVars) => io_pc' # "write"]_vars

\* C5: every read_ready call returns: a turn of its loop that reads the
\* orderly end of the stream (a read of 0 bytes) tears the slot down and
\* ends the call.
C5_ReadReadyReturns ==
    [][(/\ io_pc = "read"
        /\ read_buf(io_tok) = IoResult("Ok", 0)
        /\ ioVars' # ioVars) => (io_pc' # "read" /\ clients'[io_tok].is_idle)]_vars

\* C6: a Sender call never blocks: with ChannelCap payloads in the channel
\* and none drained the next call returns at once.
C6_SenderNeverBlocks ==
    app_pc # "blocked"

\* C7: a Sender call made after sock_shutdown ran for its connection fails
\* and enqueues nothing: no step of such a call adds a payload to the
\* slot's channel.
C7_NoEnqueueAfterTeardown ==
    [][(app_pc \in {"wake", "send", "blocked"} /\ app_late)
          => Len(chan'[app_tok]) <= Len(chan[app_tok])]_vars

\* C8: a write buffer that write_ready left partly flushed keeps its slot
\* on the way to another write_ready: whenever the I/O thread waits in poll
\* with every update applied, a live slot with bytes left in its write
\* buffer is registered for WRITABLE.
C8_PartialFlushStaysArmed ==
    \A t \in DOMAIN clients :
        (/\ io_pc = "poll"
         /\ updates = <<>>
         /\ ~clients[t].is_idle
         /\ peer[t] = "open"
         /\ writer_buffer[t] # <<>>) => "W" \in poller[t]

\* The one response of slot t is out: every byte of it is on the socket,
\* nothing is left in the channel or the write buffer, the call is over.
ResponseOut(t) ==
    /\ sends = 1
    /\ app_pc = "idle"
    /\ wire[t] = Body(1)
    /\ chan[t] = <<>>
    /\ writer_buffer[t] = <<>>

\* Slot t reads and does not write.
Quiet(t) ==
    /\ t \in DOMAIN clients
    /\ clients[t].is_reading
    /\ ~clients[t].is_writing

\* C9: write-side quiescence: once the one response of a slot is out, and
\* unless the peer closes or the event loop ends, the slot comes to read
\* and not write, and stays so.
C9_WriteSideQuiescence ==
    \A t \in Tokens :
        [](ResponseOut(t) => <>[](Quiet(t) \/ peer[t] # "open" \/ ~Running))

\* C10: an I/O error met while handling one event does not end the event
\* loop: start never returns.
C10_LoopNeverStops ==
    io_pc # "stopped"

\* The payload of the latest Sender call has been enqueued and
\* fill_write_buffer has pulled it out of the channel of its slot.
LastPayloadPulled ==
    /\ sends >= 1
    /\ app_pc = "idle"
    /\ \A i \in 1..Len(chan[app_tok]) : chan[app_tok][i] # Body(sends)

\* C11: the I/O thread never pulls a payload out of the Sender channel in a
\* poll iteration earlier than the one in which it pops the matching
\* ResumeWriting: when an iteration is over (the thread is back in poll) and
\* the payload of the latest call has been pulled, the ResumeWriting of that
\* call (the last one queued for the slot) is not still in the update queue.
C11_PayloadNotBeforeResume ==
    (io_pc = "poll" /\ LastPayloadPulled) => ~Pending("ResumeWriting", app_tok)

C13_ReuseStartsClean ==
    \A t \in DOMAIN clients :
        (conns >= 2 /\ ~clients[t].is_idle /\ nsent[t] = 0)
            => (reader_buffer[t] = <<>> /\ writer_buffer[t] = <<>>)

\* C14: sock_shutdown followed directly by handle_new leaves a slot as
\* build_from makes it: the three flags false, both buffers empty; this for
\* every slot, whatever its flags and buffers were.
C14_ShutdownThenNewIsFresh ==
    \A t \in DOMAIN clients :
        /\ handle_new(sock_shutdown(clients[t])) = build_from
        /\ lost_connection(reader_buffer[t]) = <<>>
        /\ lost_connection(writer_buffer[t]) = <<>>

\* C14 witness: write_ready is about to meet the peer's reset, and so to
\* run sock_shutdown, on a slot registered for both directions that has
\* bytes in its write buffer; the next accept rebinds the slot.
C14_Witness ==
    /\ io_pc = "write"
    /\ peer[io_tok] = "reset"
    /\ clients[io_tok].is_reading /\ clients[io_tok].is_writing
    /\ writer_buffer[io_tok] # <<>>
    /\ conns < WideConns

UpdateKinds == {"PauseReading", "PauseWriting", "ResumeReading", "ResumeWriting"}

\* The slot's flag is already what an update of this kind asks for.
InRequestedState(kind, cl) ==
    CASE kind = "PauseReading" -> ~cl.is_reading
      [] kind = "PauseWriting" -> ~cl.is_writing
      [] kind = "ResumeReading" -> cl.is_reading
      [] kind = "ResumeWriting" -> cl.is_writing

\* The number of times the interest set changes along reg0, reg1, reg2.
RegChanges(reg0, reg1, reg2) ==
    (IF reg1 # reg0 THEN 1 ELSE 0) + (IF reg2 # reg1 THEN 1 ELSE 0)

\* C15: interest-set requests are idempotent.  For every slot of every
\* reachable state: a request whose flag is already in the requested state
\* makes no poller call (it succeeds even when a poller call would fail) and
\* leaves flags and interest set as they are; two ResumeWriting in a row,
\* and two pause_reading in a row, change the registration at most once.
C15_RequestsIdempotent ==
    \A t \in DOMAIN clients :
        LET cl == clients[t]
            reg == poller[t]
        IN  /\ \A kind \in UpdateKinds, fail \in BOOLEAN :
                 InRequestedState(kind, cl) =>
                     handle_update(Update(kind, t), cl, reg, fail) = Result(TRUE, cl, reg)
            /\ \A f1 \in BOOLEAN, f2 \in BOOLEAN :
                 LET w1 == resume_writing(cl, reg, f1)
                     w2 == resume_writing(w1.cl, w1.reg, f2)
                     p1 == pause_reading(cl, reg, f1)
                     p2 == pause_reading(p1.cl, p1.reg, f2)
                 IN  /\ RegChanges(reg, w1.reg, w2.reg) <= 1
                     /\ RegChanges(reg, p1.reg, p2.reg) <= 1
                     /\ w1.ok => w2 = Result(TRUE, w1.cl, w1.reg)
                     /\ p1.ok => p2 = Result(TRUE, p1.cl, p1.reg)

\* C15 witness: on_update_wakeup is about to apply the second of two
\* ResumeWriting in a row to a slot that the first has registered.
C15_Witness ==
    /\ io_pc = "updates"
    /\ updates # <<>>
    /\ Head(updates).kind = "ResumeWriting"
    /\ Head(updates).tok \in DOMAIN clients
    /\ clients[Head(updates).tok].is_writing
    /\ "W" \in poller[Head(updates).tok]
    /\ sends >= 2

\* The poller call the transition table gives for a request of this kind
\* on a slot with flags (r, w); "none" where the slot is already there.
TableCall(r, w, kind) ==
    LET row(call, interest) == [call |-> call, interest |-> interest]
    IN  CASE kind = "ResumeReading" /\ ~r /\ ~w -> row("register", {"R"})
          [] kind = "ResumeWriting" /\ ~r /\ ~w -> row("register", {"W"})
          [] kind = "ResumeWriting" /\ r /\ ~w -> row("reregister", {"R", "W"})
          [] kind = "ResumeReading" /\ ~r /\ w -> row("reregister", {"R", "W"})
          [] kind = "PauseReading" /\ r /\ ~w -> row("deregister", {})
          [] kind = "PauseWriting" /\ ~r /\ w -> row("deregister", {})
          [] kind = "PauseReading" /\ r /\ w -> row("reregister", {"W"})
          [] kind = "PauseWriting" /\ r /\ w -> row("reregister", {"R"})
          [] OTHER -> row("none", {})

\* What the poller answers to the call of a table row.
TableOutcome(row, reg, fail) ==
    CASE row.call = "register" -> register(reg, row.interest, fail)
      [] row.call = "reregister" -> reregister(reg, row.interest, fail)
      [] row.call = "deregister" -> deregister(reg, fail)
      [] OTHER -> PollerResult(TRUE, reg)

\* The flags a request of this kind asks for.
RequestedFlags(cl, kind) ==
    CASE kind = "PauseReading" -> [cl EXCEPT !.is_reading = FALSE]
      [] kind = "PauseWriting" -> [cl EXCEPT !.is_writing = FALSE]
      [] kind = "ResumeReading" -> [cl EXCEPT !.is_reading = TRUE]
      [] kind = "ResumeWriting" -> [cl EXCEPT !.is_writing = TRUE]

\* C16: interest-set transitions follow the table.  For every slot of
\* every reachable state, whatever its flags (R, W), and every request,
\* the poller is driven exactly as the table row says (same call, same
\* interest, hence the same answer and the same interest set after), the
\* call succeeds unless the system call itself fails, and after a
\* successful call the flags are the requested state.
C16_TransitionTable ==
    \A t \in DOMAIN clients, kind \in UpdateKinds, fail \in BOOLEAN :
        LET cl == clients[t]
            reg == poller[t]
            res == handle_update(Update(kind, t), cl, reg, fail)
            out == TableOutcome(TableCall(cl.is_reading, cl.is_writing, kind), reg, fail)
        IN  /\ res.ok = out.ok
            /\ res.reg = out.reg
            /\ ~fail => res.ok
            /\ res.ok => res.cl = RequestedFlags(cl, kind)
            /\ res.ok => res.reg = Interest(res.cl)
            /\ ~res.ok => res.cl = cl

\* C16 witness: a slot registered for writing only, with a ResumeReading
\* for it at the head of the queue that on_update_wakeup is draining.
C16_Witness ==
    /\ io_pc = "updates"
    /\ updates # <<>>
    /\ Head(updates).kind = "ResumeReading"
    /\ Head(updates).tok \in DOMAIN clients
    /\ ~clients[Head(updates).tok].is_reading
    /\ clients[Head(updates).tok].is_writing
    /\ poller[Head(updates).tok] = {"W"}

\* Two requests came in one read on slot t: the first was consumed and
\* dispatched, the second is whole in the read buffer, and the peer has
\* sent all it will.
SecondRequestLeft(t) ==
    /\ t \in DOMAIN clients
    /\ t \in handles
    /\ nsent[t] = WideInbound
    /\ inbound[t] = <<>>
    /\ parse(reader_buffer[t]).kind = "Complete"

\* C17: pipelined requests are all dispatched: when the second of two
\* requests that came in one read is left in the read buffer and the first
\* response is out, the second is eventually parsed (it leaves the read
\* buffer through data_received), unless the peer closes or the event
\* loop ends.
C17_PipelinedDispatched ==
    \A t \in Tokens :
        []((SecondRequestLeft(t) /\ ResponseOut(t))
              => <>(~SecondRequestLeft(t) \/ peer[t] # "open" \/ ~Running))

\* The requests of at most MaxReqLen bytes: header bytes, then the byte
\* that ends the request.
Requests ==
    { [i \in 1..n |-> IF i = n THEN "E" ELSE "h"] : n \in 1..MaxReqLen }

\* The chunks of rq when it is cut after the positions in cuts.
RECURSIVE Split(_, _, _, _)
Split(rq, cuts, from, i) ==
    IF i > Len(rq) THEN <<>>
    ELSE IF i \in cuts \/ i = Len(rq)
    THEN <<SubSeq(rq, from, i)>> \o Split(rq, cuts, i + 1, i + 1)
    ELSE Split(rq, cuts, from, i + 1)

\* read_ready fed the chunks one read at a time, read buffer buf to start
\* with: the buffer at the end, the number of callbacks, the bytes
\* consumed, and whether every call before the last one consumed nothing
\* and invoked no callback.
RECURSIVE Feed(_, _)
Feed(buf, chunks) ==
    IF chunks = <<>>
    THEN [buf |-> buf, calls |-> 0, consumed |-> <<>>, quiet |-> TRUE]
    ELSE LET in == buf \o Head(chunks)
             d == data_received(in)
             rest == Feed(d.buf, Tail(chunks))
         IN  [buf |-> rest.buf,
              calls |-> (IF d.called THEN 1 ELSE 0) + rest.calls,
              consumed |-> SubSeq(in, 1, Len(in) - Len(d.buf)) \o rest.consumed,
              quiet |-> /\ rest.quiet
                        /\ Len(chunks) > 1 => (d.buf = in /\ ~d.called)]

\* C18: chunked arrival does not change parsing.  For every request and
\* every way of cutting it into chunks, data_received consumes nothing and
\* invokes no callback on the chunks before the last, and on the last it
\* consumes exactly the request's bytes and invokes the callback once, as
\* when the request comes in one chunk; and for every slot of every
\* reachable state whose read buffer holds a partial request that the
\* bytes on the socket complete, the call on the whole is the call the
\* bytes would get had they come at once.
C18_ChunkedArrival ==
    /\ \A rq \in Requests :
          \A cuts \in SUBSET (1..(Len(rq) - 1)) :
              LET one == Feed(<<>>, <<rq>>)
                  fed == Feed(<<>>, Split(rq, cuts, 1, 1))
              IN  /\ fed.quiet
                  /\ fed.calls = 1
                  /\ fed.consumed = rq
                  /\ fed.buf = <<>>
                  /\ fed = one
    /\ \A t \in DOMAIN clients :
          LET buf == reader_buffer[t]
              whole == buf \o inbound[t]
          IN  (parse(buf).kind = "Partial" /\ parse(whole).kind = "Complete")
                  => /\ data_received(buf) = [buf |-> buf, called |-> FALSE]
                     /\ Feed(<<>>, <<buf, inbound[t]>>) = Feed(<<>>, <<whole>>)
                     /\ Feed(<<>>, <<whole>>).calls = 1
                     /\ Len(Feed(<<>>, <<whole>>).consumed) = parse(whole).len

\* C18 witness: read_ready has buffered the first chunk of a request, a
\* partial one, with no callback, and is about to read the chunk that
\* completes it.
C18_Witness ==
    /\ io_pc = "read"
    /\ reader_buffer[io_tok] = <<"h">>
    /\ inbound[io_tok] = <<"E">>
    /\ io_tok \notin handles

\* The slots that are idle.
IdleSlots == {t \in DOMAIN clients : clients[t].is_idle}

\* The running read_ready or write_ready meets a reset of its connection.
HandlerMeetsReset ==
    \/ io_pc = "read" /\ read_buf(io_tok).res = "ConnectionReset"
    \/ /\ io_pc = "write"
       /\ write_buf(io_tok, fill_write_buffer(writer_buffer[io_tok], chan[io_tok])).res
              = "ConnectionReset"

\* C19: peer reset leads to slot reuse.  In every step: when read_ready or
\* write_ready meets a reset, the handler returns Ok with the slot idle;
\* and when a connection is accepted while some slot is idle, it is put
\* on an idle slot, the registry and the counter staying as they are,
\* while with no slot idle it gets a new slot whose token is the
\* counter's next one.
C19_ResetLeadsToReuse ==
    [][/\ (HandlerMeetsReset /\ io_pc' # io_pc)
            => /\ clients'[io_tok].is_idle
               /\ io_pc' = Return
       /\ (backlog' < backlog)
            => IF IdleSlots # {}
               THEN /\ counter' = counter
                    /\ DOMAIN clients' = DOMAIN clients
                    /\ \E t \in IdleSlots :
                          clients' = [clients EXCEPT ![t] = handle_new(@)]
               ELSE /\ counter' = counter + 1
                    /\ counter' \notin DOMAIN clients
                    /\ DOMAIN clients' = DOMAIN clients \cup {counter'}
                    /\ clients'[counter'] = build_from
                    /\ \A t \in DOMAIN clients : clients'[t] = clients[t]
      ]_vars

\* C19 witness: on_client_incoming is about to accept a connection while
\* a slot is idle that read_ready or write_ready shut down on a reset (its
\* interest flags are as the handler left them).
C19_Witness ==
    /\ io_pc = "accept"
    /\ backlog > 0
    /\ \E t \in IdleSlots :
          /\ peer[t] = "reset"
          /\ shut[t]
          /\ clients[t].is_reading

C21_TimeoutRunsKeepAlive ==
    [][(io_pc = "timeout" /\ io_pc' # "timeout") => io_pc' = "ticked"]_vars

\* C22: a failing poller call leaves the flags alone.  For every slot of
\* every reachable state and every request that needs a poller call, when
\* the call fails the operation returns the error with is_reading,
\* is_writing and the interest set unchanged; and the step of
\* on_update_wakeup that ends the event loop on such an error changes no
\* slot.
C22_FailedCallKeepsFlags ==
    /\ [](\A t \in DOMAIN clients, kind \in UpdateKinds :
            LET res == handle_update(Update(kind, t), clients[t], poller[t], TRUE)
            IN  ~InRequestedState(kind, clients[t])
                    => /\ ~res.ok
                       /\ res.cl = clients[t]
                       /\ res.reg = poller[t])
    /\ [][(io_pc = "updates" /\ io_pc' = "stopped")
             => (clients' = clients /\ poller' = poller)]_vars

\* C22 witness: the ResumeReading of a newly accepted connection failed in
\* the poller: the event loop has ended with the update consumed and the
\* slot still not reading and not registered.
C22_Witness ==
    /\ io_pc = "stopped"
    /\ updates = <<>>
    /\ conns = 1
    /\ \E t \in DOMAIN clients :
          /\ ~clients[t].is_idle
          /\ ~clients[t].is_reading
          /\ ~clients[t].is_writing
          /\ poller[t] = {}
          /\ peer[t] = "open"
          /\ nsent[t] = 0

\* The number of entries of the queue q that equal u.
RECURSIVE Count(_, _)
Count(q, u) ==
    IF q = <<>> THEN 0
    ELSE (IF Head(q) = u THEN 1 ELSE 0) + Count(Tail(q), u)

\* C23: every accepted connection starts reading.  The step that accepts
\* a connection, on a new slot or on a reused one, appends exactly one
\* ResumeReading for its token to the update queue and nothing else; and
\* in every reachable state, while the event loop runs, a slot in use for
\* which no ResumeReading is left in the queue has is_reading set and
\* READABLE registered for its socket, whatever else was queued for its
\* token.
C23_AcceptedStartsReading ==
    /\ [](\A t \in DOMAIN clients :
            (Running /\ ~clients[t].is_idle /\ ~Pending("ResumeReading", t))
                => (clients[t].is_reading /\ "R" \in poller[t]))
    /\ [][(backlog' < backlog)
             => \E t \in DOMAIN clients' :
                  /\ ~clients'[t].is_idle
                  /\ t \in DOMAIN clients => clients[t].is_idle
                  /\ \/ updates' = Append(updates, Update("ResumeReading", t))
                     \/ /\ Len(updates) = MaxUpdates
                        /\ updates[MaxUpdates] = Update("ResumeReading", t)
                        /\ updates' = updates
                  /\ Len(updates) < MaxUpdates
                        => Count(updates', Update("ResumeReading", t))
                             = Count(updates, Update("ResumeReading", t)) + 1]_vars

\* C23 witness: a slot has been rebound to a second connection, which has
\* sent nothing yet, and on_update_wakeup is about to apply an update that
\* the previous connection's Sender left in the queue, ahead of the new
\* connection's ResumeReading.
C23_Witness ==
    /\ io_pc = "updates"
    /\ conns = 2
    /\ Len(updates) >= 2
    /\ Head(updates).kind \in {"ResumeWriting", "PauseWriting"}
    /\ Head(updates).tok \in DOMAIN clients
    /\ LET t == Head(updates).tok
       IN  /\ ~clients[t].is_idle
           /\ ~clients[t].is_reading
           /\ nsent[t] = 0
           /\ Pending("ResumeReading", t)

\* The bodies the Sender calls have enqueued so far, in the order of the
\* calls: the call in progress has not enqueued its body yet.
EnqueuedBodies ==
    LET n == IF app_pc \in {"wake", "send", "blocked"} THEN sends - 1 ELSE sends
    IN  Flatten([k \in 1..n |-> Body(k)])

IsPrefix(p, q) == Len(p) <= Len(q) /\ p = SubSeq(q, 1, Len(p))

\* C24: response bytes keep their order and content.  In every reachable
\* state of a connection, the bytes write_ready has handed to the socket
\* are a prefix of the bodies passed to the Sender in the order of the
\* calls; and unless lost_connection has thrown the buffer away, the bytes
\* on the socket, then the write buffer, then the channel are exactly
\* those bodies: nothing is dropped, duplicated or reordered.
C24_ResponseBytesInOrder ==
    \A t \in DOMAIN clients :
        /\ IsPrefix(wire[t], EnqueuedBodies)
        /\ ~shut[t] =>
              wire[t] \o writer_buffer[t] \o Flatten(chan[t]) = EnqueuedBodies

\* C24 witness: the first body is on the socket whole and the second one
\* in part, the rest of it waiting in the write buffer.
C24_Witness ==
    \E t \in DOMAIN clients :
        /\ wire[t] = Body(1) \o <<Body(2)[1]>>
        /\ writer_buffer[t] # <<>>
        /\ sends >= 3

\* C25: on a parse error data_received returns success and changes
\* nothing.  For every slot of every reachable state, data_received on a
\* read buffer that httparse rejects gives the buffer back as it is and
\* invokes no callback; and the turn of read_ready that offers such a
\* buffer leaves it as the read filled it, posts no update, adds nothing
\* to the write buffer, hands out no handle and goes on with its loop.
C25_ParseErrorChangesNothing ==
    /\ [](\A t \in DOMAIN clients :
            LET in == reader_buffer[t] \o inbound[t]
            IN  parse(in).kind = "Error"
                    => data_received(in) = [buf |-> in, called |-> FALSE])
    /\ [][(/\ io_pc = "read"
           /\ read_buf(io_tok).res = "Ok"
           /\ parse(reader_buffer[io_tok] \o inbound[io_tok]).kind = "Error"
           /\ iter' # iter)
             => /\ reader_buffer'[io_tok] = reader_buffer[io_tok] \o inbound[io_tok]
                /\ handles' = handles
                /\ updates' = updates
                /\ writer_buffer' = writer_buffer
                /\ clients' = clients
                /\ io_pc' = "read"]_vars

\* C25 witness: read_ready has read a byte that httparse rejects and has
\* offered it to data_received: the byte is still in the read buffer and
\* the application has no handle.
C25_Witness ==
    /\ io_pc = "read"
    /\ reader_buffer[io_tok] = <<"x">>
    /\ inbound[io_tok] = <<>>
    /\ nsent[io_tok] = 1
    /\ io_tok \notin handles
    /\ iter = 1

\* C26: the HTTP/1 parsing state describes the current request only.  In
\* every step: when read_ready's call of data_received invokes the
\* callback for a request, expected_content_length and chunked_encoding
\* are what that request's own headers give, starting from 0 and false;
\* and when sock_shutdown has just run lost_connection for a slot, both
\* fields of the slot are 0 and false.
C26_ParsingStateIsCurrent ==
    [][/\ (/\ io_pc = "read"
           /\ read_buf(io_tok).res = "Ok"
           /\ parse(reader_buffer[io_tok] \o inbound[io_tok]).kind = "Complete"
           /\ iter' # iter)
             => LET in == reader_buffer[io_tok] \o inbound[io_tok]
                    request == SubSeq(in, 1, parse(in).len)
                IN  h1'[io_tok] = on_request_parse(H1Protocol_new, request)
       /\ \A t \in DOMAIN clients :
             (~shut[t] /\ shut'[t]) => h1'[t] = H1Protocol_new
      ]_vars

\* The thread that pushes the write-side updates of a token: ResumeWriting
\* comes from DataSender::__call__ on the application's thread,
\* PauseWriting from fill_write_buffer and write_buffer_drained on the I/O
\* thread.
WriteSideProducer(kind) ==
    IF kind = "ResumeWriting" THEN "application" ELSE "io"

\* C27: for every token, the interest-set updates in the queue come from
\* a single producer: no two write-side updates of one token in the
\* queue were pushed by different threads.
C27_SingleProducerPerToken ==
    \A i \in 1..Len(updates), j \in 1..Len(updates) :
        (/\ updates[i].tok = updates[j].tok
         /\ updates[i].kind \in {"ResumeWriting", "PauseWriting"}
         /\ updates[j].kind \in {"ResumeWriting", "PauseWriting"})
            => WriteSideProducer(updates[i].kind) = WriteSideProducer(updates[j].kind)

\* C28: no cross-connection leakage through slot reuse.  While the second
\* connection of a reused slot has sent no byte, so that no request of it
\* has been parsed and no Sender handle issued for it, nothing has been
\* written to its socket: every body in the system was passed to a handle
\* of the slot's previous connection.
C28_NoLeakAcrossReuse ==
    \A t \in DOMAIN clients :
        (conns = 2 /\ counter = TokenCounterSeed + 1
           /\ ~clients[t].is_idle /\ nsent[t] = 0)
            => wire[t] = <<>>

\* C29: registry lookups on the I/O thread never fail.  In every reachable
\* state every token in the update queue, every token of a socket event
\* still to be dispatched and the token of the running handler has a slot
\* in the registry, and the `expect` of get_client has not been
\* triggered; and no step removes a slot from the registry.
C29_LookupsNeverFail ==
    /\ [](/\ io_pc # "panicked"
          /\ \A i \in 1..Len(updates) : updates[i].tok \in DOMAIN clients
          /\ \A e \in events :
                e.tok \notin {SERVER, CHECK_UPDATE} => e.tok \in DOMAIN clients
          /\ io_pc \in {"read", "write", "shutdown"} => io_tok \in DOMAIN clients)
    /\ [][DOMAIN clients \subseteq DOMAIN clients']_vars

\* C29 witness: with two slots in the registry, on_update_wakeup is about
\* to look up the slot of an update for the second one while a socket
\* event of the first waits to be dispatched.
C29_Witness ==
    /\ io_pc = "updates"
    /\ updates # <<>>
    /\ Head(updates).tok = TokenCounterSeed + 2
    /\ \E e \in events : e.tok = TokenCounterSeed + 1
    /\ DOMAIN clients = {TokenCounterSeed + 1, TokenCounterSeed + 2}

\* The slots bound to a connection that has not been shut down.
LiveSlots == {t \in DOMAIN clients : ~clients[t].is_idle}

\* C30: a live connection is never displaced.  In every step that accepts
\* a connection, every slot that is not idle keeps its flags, its socket
\* and its registration, and the accepted connection gets a slot of its
\* own: the slots in use are one more than before.
C30_LiveNeverDisplaced ==
    [][(backlog' < backlog)
         => /\ \A t \in LiveSlots :
                 /\ clients'[t] = clients[t]
                 /\ poller'[t] = poller[t]
                 /\ peer'[t] = peer[t]
                 /\ inbound'[t] = inbound[t]
                 /\ nsent'[t] = nsent[t]
                 /\ wire'[t] = wire[t]
                 /\ space'[t] = space[t]
                 /\ shut'[t] = shut[t]
            /\ Cardinality({t \in DOMAIN clients' : ~clients'[t].is_idle})
                 = Cardinality(LiveSlots) + 1]_vars

\* C30 witness: a second connection has been accepted while the first was
\* in the middle of its response: both slots are in use and the first
\* one's socket has been written to and is still open.
C30_Witness ==
    /\ io_pc = "accept"
    /\ backlog = 0
    /\ DOMAIN clients = {TokenCounterSeed + 1, TokenCounterSeed + 2}
    /\ LiveSlots = DOMAIN clients
    /\ peer[TokenCounterSeed + 1] = "open"
    /\ wire[TokenCounterSeed + 1] # <<>>
    /\ wire[TokenCounterSeed + 2] = <<>>

====
